---- MODULE Spec2Model ----
(***************************************************************************)
(* The layer editor of the visual compositor: App.tsx (editor state and    *)
(* the layer-collection handlers), components/Editor.tsx (the pointer      *)
(* gestures move / rotate / resize, the canvas click and wheel handlers,   *)
(* the live preview) and the Controls panel (layer list, sliders).         *)
(*                                                                         *)
(* Numbers.  A JavaScript number is modelled as an exact rational          *)
(* <<n, d>> (d > 0, gcd(n, d) = 1): +, -, * and / are exact, so the        *)
(* rounding of IEEE doubles is not modelled.  An angle in radians is the   *)
(* rational r such that the angle is r * pi, so `deg * Math.PI / 180` is   *)
(* deg / 180 and `rad * 180 / Math.PI` is rad * 180.  Math.sin, Math.cos,  *)
(* Math.atan2 and Math.hypot are irrational in general; they are modelled  *)
(* by rational approximations that are exact on the principal directions   *)
(* (see Sin, Atan2, Hypot).                                                *)
(***************************************************************************)
EXTENDS Integers, Sequences, FiniteSets, TLC

----------------------------------------------------------------------------
(* Rational arithmetic *)

Abs(i) == IF i < 0 THEN -i ELSE i

RECURSIVE GCD(_, _)
GCD(a, b) == IF b = 0 THEN a ELSE GCD(b, a % b)

\* the rational n/d in lowest terms with a positive denominator
Norm(n, d) ==
    LET g == GCD(Abs(n), Abs(d))
        s == IF d < 0 THEN -1 ELSE 1
    IN  <<s * (n \div g), Abs(d) \div g>>

Q(i) == <<i, 1>>

Frac(n, d) == Norm(n, d)

Neg(a) == <<-a[1], a[2]>>

\* integer parts and fractional parts are added apart, and the fractional sum is
\* reduced first, to keep the intermediate numerators small
Add(a, b) ==
    LET g == GCD(a[2], b[2])
        f == Norm((a[1] % a[2]) * (b[2] \div g) + (b[1] % b[2]) * (a[2] \div g),
                  (a[2] \div g) * b[2])
    IN  <<((a[1] \div a[2]) + (b[1] \div b[2])) * f[2] + f[1], f[2]>>

Sub(a, b) == Add(a, Neg(b))

\* cross-cancelled before multiplying: the product is in lowest terms and the
\* intermediate products stay small
Mul(a, b) ==
    LET g1 == GCD(Abs(a[1]), b[2])
        g2 == GCD(Abs(b[1]), a[2])
        h1 == IF g1 = 0 THEN 1 ELSE g1
        h2 == IF g2 = 0 THEN 1 ELSE g2
    IN  <<(a[1] \div h1) * (b[1] \div h2), (a[2] \div h2) * (b[2] \div h1)>>

\* a / b for b # 0
Div(a, b) == Mul(a, Norm(b[2], b[1]))

Sign(a) == IF a[1] < 0 THEN -1 ELSE IF a[1] = 0 THEN 0 ELSE 1

Lt(a, b) == Sign(Sub(a, b)) < 0

Le(a, b) == Sign(Sub(a, b)) <= 0

RMax(a, b) == IF Lt(a, b) THEN b ELSE a

RMin(a, b) == IF Lt(b, a) THEN b ELSE a

RAbs(a) == <<Abs(a[1]), a[2]>>

\* the largest integer <= a
Floor(a) == a[1] \div a[2]

Half(i) == Norm(i, 2)

----------------------------------------------------------------------------
(* Math.* on rationals *)

\* Math.sin(r * pi): Bhaskara's rational approximation
\* sin(u * pi) = 16 u (1 - u) / (5 - 4 u (1 - u)) for 0 <= u <= 1, extended by
\* sin(x + pi) = -sin(x); exact at 0, pi/6, pi/2, 5pi/6, pi.
SinPi(r) ==
    LET u == Sub(r, Q(2 * Floor(Div(r, Q(2)))))
        v == IF Le(u, Q(1)) THEN u ELSE Sub(u, Q(1))
        p == Mul(v, Sub(Q(1), v))
        b == Div(Mul(Q(16), p), Sub(Q(5), Mul(Q(4), p)))
    IN  IF Le(u, Q(1)) THEN b ELSE Neg(b)

\* Math.cos(r * pi) = sin(r * pi + pi / 2)
CosPi(r) == SinPi(Add(r, Half(1)))

RECURSIVE IsqrtIter(_, _)
IsqrtIter(n, x) ==
    LET y == (x + n \div x) \div 2
    IN  IF y >= x THEN x ELSE IsqrtIter(n, y)

\* the integer square root: the largest r with r * r <= n
Isqrt(n) == IF n = 0 THEN 0 ELSE IsqrtIter(n, n)

\* the precision of Hypot: distances are computed to 1 / HypotPrec
HypotPrec == 10

\* floor(|a| * HypotPrec), without forming a[1] * HypotPrec
Fixed(a) ==
    LET n == Abs(a[1])
    IN  (n \div a[2]) * HypotPrec + ((n % a[2]) * HypotPrec) \div a[2]

\* Math.hypot(dx, dy), exact when the distance is a multiple of 1 / HypotPrec
Hypot(dx, dy) ==
    LET X == Fixed(dx)
        Y == Fixed(dy)
    IN  Norm(Isqrt(X * X + Y * Y), HypotPrec)

\* atan(t) / pi for 0 <= t <= 1, approximated by t (4 - t) / 12: exact at
\* t = 0, t = tan(pi / 12) and t = 1
AtanUnit(t) == Div(Mul(t, Sub(Q(4), t)), Q(12))

\* the precision of Atan2: angles are computed to pi / AngleSteps (15 degrees)
AngleSteps == 12

\* a rounded to the nearest multiple of 1 / AngleSteps
Quantise(a) == Norm(Floor(Add(Mul(a, Q(AngleSteps)), Half(1))), AngleSteps)

\* Math.atan2(dy, dx) / pi, in (-1, 1], to the nearest pi / AngleSteps; exact on
\* the principal directions, 0 for the zero vector
Atan2(dy, dx) ==
    LET a == Q(Fixed(dx))
        b == Q(Fixed(dy))
        base == IF Sign(a) = 0 /\ Sign(b) = 0 THEN Q(0)
                ELSE IF Le(b, a) THEN Quantise(AtanUnit(Div(b, a)))
                ELSE Sub(Half(1), Quantise(AtanUnit(Div(a, b))))
    IN  IF Sign(dx) >= 0
        THEN (IF Sign(dy) >= 0 THEN base ELSE Neg(base))
        ELSE (IF Sign(dy) >= 0 THEN Sub(Q(1), base) ELSE Sub(base, Q(1)))

\* toRad: deg * Math.PI / 180
toRad(deg) == Div(deg, Q(180))

----------------------------------------------------------------------------
(* Bounds and input sets *)

\* foreground images uploaded in one behaviour
MaxLayers == 2

\* pointer gestures (pointer-downs on a layer or handle) in one behaviour
MaxGestures == 1

\* slider, numeric-field and wheel inputs in one behaviour
MaxInputs == 1

\* export requests (clicks on the download button) in one behaviour
MaxExports == 2

\* naturalWidth x naturalHeight of the uploaded foreground images
ImageSizes == {<<40, 30>>}

\* canvas-local pointer positions (getLocalCoords) of the editor's events: the
\* se corner of a 40 x 30 layer at (50, 50) and a point beyond it
EditorPoints == {<<90, 80>>, <<130, 110>>}

\* e.deltaY of a wheel event
WheelDeltas == {-100, 100}

\* values of the Controls inputs: scale slider (0.1 .. 3.0), rotation slider
\* (-180 .. 180), Pos X / Pos Y fields
SliderScales == {Q(2)}

SliderRotations == {90}

NumericPositions == {0}

DragModes == {"move", "resize", "rotate"}

ResizeHandles == {"nw", "ne", "sw", "se"}

----------------------------------------------------------------------------
(* State *)

VARIABLES
    layers,             \* EditorState.layers: the ordered layer collection
    selectedLayerId,    \* EditorState.selectedLayerId, NoLayer for null
    dragState,          \* Editor's dragState: Null or <<DragState>>
    isDraggingRef,      \* Editor's isDraggingRef.current
    pendingFg,          \* foreground images still decoding (img.onload pending)
    nextId,             \* ids handed out so far (Math.random() ids are fresh)
    emitted,            \* the onUpdateLayer calls made by the last handler
    movedTo,            \* the pointer position of the pointermove the drag
                        \* session handled last, Null after any other event
    pointer,            \* the browser's pointer: phase (idle, down, click:
                        \* released with the click still to be dispatched), the
                        \* layer and position of the pointer-down, whether a
                        \* pointermove followed it
    budget,             \* gestures, inputs and exports the behaviour may still
                        \* make (bounds the behaviour)
    backgroundSrc,      \* EditorState.backgroundSrc: NoBackground or the image
    bgSize,             \* Editor's bgSize
    bgDecoding,         \* background images the Editor's effect is decoding
    exportJob           \* the export handleDownload started last

vars == <<layers, selectedLayerId, dragState, isDraggingRef, pendingFg, nextId,
          emitted, movedTo, pointer, budget, backgroundSrc, bgSize,
          bgDecoding, exportJob>>

\* the background and the export: untouched by the layer operations and the gestures
exportVars == <<backgroundSrc, bgSize, bgDecoding, exportJob>>

\* backgroundSrc: null
NoBackground == 0

\* Editor's initial bgSize, and the canvas size without a background
DefaultCanvas == <<800, 600>>

\* no export was requested
IdleJob ==
    [phase |-> "idle", ctx |-> TRUE, src |-> NoBackground, size |-> DefaultCanvas,
     layers |-> <<>>, index |-> 0, drawn |-> <<>>, failed |-> {},
     downloaded |-> FALSE, frame |-> <<>>, saved |-> <<>>, drawnWith |-> <<>>]

\* no background is set and no export was requested
NoExport ==
    /\ backgroundSrc = NoBackground
    /\ bgSize = DefaultCanvas
    /\ bgDecoding = {}
    /\ exportJob = IdleJob

\* null (selectedLayerId, layer ids are 1, 2, ...)
NoLayer == 0

\* null / undefined of an optional value
Null == <<>>

LayerIds == {layers[i].id : i \in DOMAIN layers}

\* layers.find(l => l.id === id), for id \in LayerIds
LayerOf(id) == layers[CHOOSE i \in DOMAIN layers : layers[i].id = id]

IdlePointer == [phase |-> "idle", layer |-> NoLayer, downAt |-> Null, moved |-> FALSE]

Init ==
    /\ layers = <<>>
    /\ selectedLayerId = NoLayer
    /\ dragState = Null
    /\ isDraggingRef = FALSE
    /\ pendingFg = <<>>
    /\ nextId = 1
    /\ emitted = <<>>
    /\ movedTo = Null
    /\ pointer = IdlePointer
    /\ budget = [gestures |-> MaxGestures, inputs |-> MaxInputs, exports |-> MaxExports]
    /\ NoExport

----------------------------------------------------------------------------
(* App.tsx: the layer collection *)

\* { ...l, ...updates }
Merge(l, updates) ==
    [f \in DOMAIN l |-> IF f \in DOMAIN updates THEN updates[f] ELSE l[f]]

\* an update merged into every layer, whatever its id
UpdatedLayersAll(ls, id, updates) ==
    [i \in 1..Len(ls) |-> Merge(ls[i], updates)]

\* handleUpdateLayer: prev.layers.map(l => l.id === id ? { ...l, ...updates } : l)
UpdatedLayers(ls, id, updates) ==
    [i \in 1..Len(ls) |-> IF ls[i].id = id THEN Merge(ls[i], updates) ELSE ls[i]]

\* a handler's call onUpdateLayer(id, updates)
EmitUpdate(id, updates) ==
    /\ layers' = UpdatedLayers(layers, id, updates)
    /\ emitted' = <<[id |-> id, updates |-> updates]>>

\* a new layer put at the canvas origin
NewLayerAtOrigin(id, size) ==
    [id |-> id, x |-> Q(0), y |-> Q(0), scale |-> Q(1), rotation |-> Q(0),
     width |-> size[1], height |-> size[2], visible |-> TRUE]

\* the layer handleUploadForeground's img.onload appends
NewLayer(id, size) ==
    [id |-> id, x |-> Q(50), y |-> Q(50), scale |-> Q(1), rotation |-> Q(0),
     width |-> size[1], height |-> size[2], visible |-> TRUE]

\* handleUploadForeground, for one file: the image starts decoding
UploadForeground(size) ==
    /\ nextId + Len(pendingFg) <= MaxLayers
    /\ pendingFg' = Append(pendingFg, size)
    /\ emitted' = <<>>
    /\ movedTo' = Null
    /\ UNCHANGED <<layers, selectedLayerId, dragState, isDraggingRef, nextId,
                   pointer, budget>>
    /\ UNCHANGED exportVars

\* img.onload of a decoding foreground image (in any order): the layer is appended
ForegroundLoaded(k) ==
    /\ k \in DOMAIN pendingFg
    /\ layers' = Append(layers, NewLayer(nextId, pendingFg[k]))
    /\ nextId' = nextId + 1
    /\ pendingFg' = [i \in 1..(Len(pendingFg) - 1) |->
                        IF i < k THEN pendingFg[i] ELSE pendingFg[i + 1]]
    /\ emitted' = <<>>
    /\ movedTo' = Null
    /\ UNCHANGED <<selectedLayerId, dragState, isDraggingRef, pointer, budget>>
    /\ UNCHANGED exportVars

\* handleSelectLayer from the layer list (Controls: onClick of a list row)
SelectLayer(id) ==
    /\ id \in LayerIds
    /\ selectedLayerId' = id
    /\ emitted' = <<>>
    /\ movedTo' = Null
    /\ UNCHANGED <<layers, dragState, isDraggingRef, pendingFg, nextId, pointer,
                   budget>>
    /\ UNCHANGED exportVars

\* a delete that leaves the selection as it is
DeleteLayerKeepsSelection(id) ==
    /\ id \in LayerIds
    /\ layers' = SelectSeq(layers, LAMBDA l : l.id # id)
    /\ emitted' = <<>>
    /\ movedTo' = Null
    /\ UNCHANGED <<selectedLayerId, dragState, isDraggingRef, pendingFg, nextId,
                   pointer, budget>>
    /\ UNCHANGED exportVars

\* handleDeleteLayer (Controls: the row's delete button)
DeleteLayer(id) ==
    /\ id \in LayerIds
    /\ layers' = SelectSeq(layers, LAMBDA l : l.id # id)
    /\ selectedLayerId' = IF selectedLayerId = id THEN NoLayer ELSE selectedLayerId
    /\ emitted' = <<>>
    /\ movedTo' = Null
    /\ UNCHANGED <<dragState, isDraggingRef, pendingFg, nextId, pointer, budget>>
    /\ UNCHANGED exportVars

\* handleToggleVisibility (Controls: the row's eye button)
ToggleVisibility(id) ==
    /\ id \in LayerIds
    /\ layers' = [i \in 1..Len(layers) |->
                    IF layers[i].id = id
                    THEN [layers[i] EXCEPT !.visible = ~layers[i].visible]
                    ELSE layers[i]]
    /\ emitted' = <<>>
    /\ movedTo' = Null
    /\ UNCHANGED <<selectedLayerId, dragState, isDraggingRef, pendingFg, nextId,
                   pointer, budget>>
    /\ UNCHANGED exportVars

\* Controls: the "Active Layer Props" inputs, shown when the selected layer exists;
\* each onChange calls onUpdateLayer(selectedLayer.id, {field: parsed value})
ControlInput(updates) ==
    /\ selectedLayerId \in LayerIds
    /\ budget.inputs > 0
    /\ budget' = [budget EXCEPT !.inputs = @ - 1]
    /\ EmitUpdate(selectedLayerId, updates)
    /\ movedTo' = Null
    /\ UNCHANGED <<selectedLayerId, dragState, isDraggingRef, pendingFg, nextId,
                   pointer>>
    /\ UNCHANGED exportVars

SliderScale(v) == ControlInput([scale |-> v])

SliderRotation(v) == ControlInput([rotation |-> Q(v)])

NumericX(v) == ControlInput([x |-> Q(v)])

NumericY(v) == ControlInput([y |-> Q(v)])

----------------------------------------------------------------------------
(* Editor.tsx: the pointer gestures *)

\* the pivot (corner opposite the handle) in unrotated local space, relative to
\* the top-left corner
PivotLocal(handle, layer) ==
    CASE handle = "nw" -> <<layer.width, layer.height>>
      [] handle = "ne" -> <<0, layer.height>>
      [] handle = "sw" -> <<layer.width, 0>>
      [] handle = "se" -> <<0, 0>>

\* the layer's centre in world space: (x + width / 2, y + height / 2)
CenterOf(layer) ==
    <<Add(layer.x, Half(layer.width)), Add(layer.y, Half(layer.height))>>

\* a pivot taken from the layer as if it were not rotated
PivotWorldUnrotated(layer, handle) ==
    LET c == CenterOf(layer)
        p == PivotLocal(handle, layer)
        dx == Mul(Sub(Q(p[1]), Half(layer.width)), layer.scale)
        dy == Mul(Sub(Q(p[2]), Half(layer.height)), layer.scale)
    IN  <<Add(c[1], dx), Add(c[2], dy)>>

\* handlePointerDown, mode resize: the pivot's world position
PivotWorld(layer, handle) ==
    LET c == CenterOf(layer)
        p == PivotLocal(handle, layer)
        dx == Mul(Sub(Q(p[1]), Half(layer.width)), layer.scale)
        dy == Mul(Sub(Q(p[2]), Half(layer.height)), layer.scale)
        rad == toRad(layer.rotation)
        rotatedOffX == Sub(Mul(dx, CosPi(rad)), Mul(dy, SinPi(rad)))
        rotatedOffY == Add(Mul(dx, SinPi(rad)), Mul(dy, CosPi(rad)))
    IN  <<Add(c[1], rotatedOffX), Add(c[2], rotatedOffY)>>

\* handlePointerDown: the DragState it stores
StartDragState(layer, mode, handle, mouseX, mouseY) ==
    LET c == CenterOf(layer)
        pivot == PivotWorld(layer, handle)
    IN  [mode |-> mode,
         handle |-> handle,
         startX |-> mouseX,
         startY |-> mouseY,
         startLayerState |-> layer,
         centerWorldStart |-> c,
         pivotWorld |-> IF mode = "resize" THEN pivot ELSE Null,
         startDist |-> IF mode = "resize"
                       THEN Hypot(Sub(mouseX, pivot[1]), Sub(mouseY, pivot[2]))
                       ELSE Null,
         startAngle |-> IF mode = "rotate"
                        THEN Atan2(Sub(mouseY, c[2]), Sub(mouseX, c[1]))
                        ELSE Null]

\* handlePointerDown on a rendered layer body (mode move) or on one of the handles
\* of the selected layer (rotate knob, resize corners)
PointerDown(layerId, mode, handle, pt) ==
    /\ pointer.phase = "idle"
    /\ budget.gestures > 0
    /\ layerId \in LayerIds
    /\ LayerOf(layerId).visible
    /\ mode # "move" => selectedLayerId = layerId
    /\ (mode = "resize") = (handle \in ResizeHandles)
    /\ selectedLayerId' = layerId
    /\ dragState' = <<StartDragState(LayerOf(layerId), mode, handle,
                                     Q(pt[1]), Q(pt[2]))>>
    /\ isDraggingRef' = FALSE
    /\ pointer' = [phase |-> "down", layer |-> layerId, downAt |-> pt, moved |-> FALSE]
    /\ budget' = [budget EXCEPT !.gestures = @ - 1]
    /\ emitted' = <<>>
    /\ movedTo' = Null
    /\ UNCHANGED <<layers, pendingFg, nextId>>
    /\ UNCHANGED exportVars

\* a move that puts the layer's corner at the pointer, forgetting where in the layer
\* the pointer went down
MoveUpdateToPointer(ds, currX, currY) ==
    [x |-> currX, y |-> currY]

\* handlePointerMove, mode move
MoveUpdate(ds, currX, currY) ==
    LET dx == Sub(currX, ds.startX)
        dy == Sub(currY, ds.startY)
    IN  [x |-> Add(ds.startLayerState.x, dx), y |-> Add(ds.startLayerState.y, dy)]

\* handlePointerMove, mode rotate
RotateUpdate(ds, currX, currY) ==
    LET currAngle == Atan2(Sub(currY, ds.centerWorldStart[2]),
                           Sub(currX, ds.centerWorldStart[1]))
        degDelta == Mul(Sub(currAngle, ds.startAngle), Q(180))
    IN  [rotation |-> Add(ds.startLayerState.rotation, degDelta)]

\* the scale floor of a resize: Math.max(0.05, newScale)
MinScale == Frac(5, 100)

\* a resize move closer than this to the pivot is ignored: currDist < 1
MinDist == 1

\* handlePointerMove, mode resize: pivot-to-pointer distance
CurrDist(ds, currX, currY) ==
    Hypot(Sub(currX, ds.pivotWorld[1]), Sub(currY, ds.pivotWorld[2]))

\* a new scale with the ratio of the distances inverted
NewScaleInverted(ds, currDist) ==
    RMax(Frac(5, 100), Mul(ds.startLayerState.scale, Div(ds.startDist, currDist)))

\* handlePointerMove, mode resize: step 2, the new scale
NewScale(ds, currDist) ==
    RMax(MinScale, Mul(ds.startLayerState.scale, Div(currDist, ds.startDist)))

\* a resize about the layer's centre: the new scale with the position kept
ResizeUpdateAboutCentre(ds, newScale) ==
    [x |-> ds.startLayerState.x, y |-> ds.startLayerState.y, scale |-> newScale]

\* handlePointerMove, mode resize: steps 3 and 4, given the new scale
ResizeUpdate(ds, newScale) ==
    LET pivotToCenterX == Sub(ds.centerWorldStart[1], ds.pivotWorld[1])
        pivotToCenterY == Sub(ds.centerWorldStart[2], ds.pivotWorld[2])
        scaleRatio == Div(newScale, ds.startLayerState.scale)
        newCenterX == Add(ds.pivotWorld[1], Mul(pivotToCenterX, scaleRatio))
        newCenterY == Add(ds.pivotWorld[2], Mul(pivotToCenterY, scaleRatio))
    IN  [x |-> Sub(newCenterX, Half(ds.startLayerState.width)),
         y |-> Sub(newCenterY, Half(ds.startLayerState.height)),
         scale |-> newScale]

\* the updates of a handlePointerMove without the currDist < 1 return
GestureUpdatesNoThreshold(ds, currX, currY) ==
    IF ds.mode = "move" THEN <<MoveUpdate(ds, currX, currY)>>
    ELSE IF ds.mode = "rotate" /\ ds.startAngle # Null
    THEN <<RotateUpdate(ds, currX, currY)>>
    ELSE IF ds.mode = "resize" /\ ds.pivotWorld # Null
            /\ ds.startDist # Null /\ Sign(ds.startDist) # 0
    THEN <<ResizeUpdate(ds, NewScale(ds, CurrDist(ds, currX, currY)))>>
    ELSE <<>>

\* the updates handlePointerMove emits for the drag session ds: none or one
GestureUpdates(ds, currX, currY) ==
    IF ds.mode = "move" THEN <<MoveUpdate(ds, currX, currY)>>
    ELSE IF ds.mode = "rotate" /\ ds.startAngle # Null
    THEN <<RotateUpdate(ds, currX, currY)>>
    ELSE IF ds.mode = "resize" /\ ds.pivotWorld # Null
            /\ ds.startDist # Null /\ Sign(ds.startDist) # 0
    THEN (IF Lt(CurrDist(ds, currX, currY), Q(MinDist)) THEN <<>>
          ELSE <<ResizeUpdate(ds, NewScale(ds, CurrDist(ds, currX, currY)))>>)
    ELSE <<>>

\* handlePointerMove: a pointermove reaching the canvas, in a gesture or hovering
PointerMove(pt) ==
    /\ pointer.phase \in {"idle", "down"}
    /\ pointer' = [pointer EXCEPT !.moved = (pointer.phase = "down")]
    /\ IF dragState = Null \/ selectedLayerId = NoLayer
       THEN /\ emitted' = <<>>
            /\ movedTo' = Null
            /\ UNCHANGED <<layers, isDraggingRef>>
       ELSE /\ isDraggingRef' = TRUE
            /\ movedTo' = pt
            /\ LET ups == GestureUpdates(dragState[1], Q(pt[1]), Q(pt[2]))
               IN  IF ups = <<>>
                   THEN emitted' = <<>> /\ UNCHANGED layers
                   ELSE EmitUpdate(selectedLayerId, ups[1])
    /\ UNCHANGED <<selectedLayerId, dragState, pendingFg, nextId, budget>>
    /\ UNCHANGED exportVars

\* handlePointerUp: the pointerup of a pointer pressed on a layer or handle; the
\* browser dispatches the click next
PointerUp ==
    /\ pointer.phase = "down"
    /\ dragState' = Null
    /\ pointer' = [pointer EXCEPT !.phase = "click"]
    /\ emitted' = <<>>
    /\ movedTo' = Null
    /\ UNCHANGED <<layers, selectedLayerId, isDraggingRef, pendingFg, nextId, budget>>
    /\ UNCHANGED exportVars

\* pointercancel of a pressed pointer: the canvas binds onPointerMove and
\* onPointerUp only, so no handler runs
PointerCancel ==
    /\ pointer.phase = "down"
    /\ pointer' = IdlePointer
    /\ emitted' = <<>>
    /\ movedTo' = Null
    /\ UNCHANGED <<layers, selectedLayerId, dragState, isDraggingRef, pendingFg,
                   nextId, budget>>
    /\ UNCHANGED exportVars

\* handleBackgroundClick: new selectedLayerId
ClickSelection == IF ~isDraggingRef THEN NoLayer ELSE selectedLayerId

\* the click that follows pointer-up on a layer or handle bubbles to the canvas:
\* handleBackgroundClick
CanvasClick ==
    /\ pointer.phase = "click"
    /\ selectedLayerId' = ClickSelection
    /\ isDraggingRef' = FALSE
    /\ pointer' = IdlePointer
    /\ emitted' = <<>>
    /\ movedTo' = Null
    /\ UNCHANGED <<layers, dragState, pendingFg, nextId, budget>>
    /\ UNCHANGED exportVars

\* press, release and click on the empty canvas: handlePointerUp, then
\* handleBackgroundClick
BackgroundClick ==
    /\ pointer.phase = "idle"
    /\ dragState' = Null
    /\ selectedLayerId' = ClickSelection
    /\ isDraggingRef' = FALSE
    /\ emitted' = <<>>
    /\ movedTo' = Null
    /\ UNCHANGED <<layers, pendingFg, nextId, pointer, budget>>
    /\ UNCHANGED exportVars

\* a wheel zoom that is not clamped
WheelScaleUnclamped(scale, deltaY) ==
    Sub(scale, Mul(Q(deltaY), Frac(1, 1000)))

\* a wheel zoom ten times as sensitive
WheelScaleSensitive(scale, deltaY) ==
    RMax(Frac(1, 10), RMin(Q(5), Sub(scale, Mul(Q(deltaY), Frac(1, 100)))))

\* handleWheel's new scale
WheelScale(scale, deltaY) ==
    RMax(Frac(1, 10), RMin(Q(5), Sub(scale, Mul(Q(deltaY), Frac(1, 1000)))))

\* handleWheel
Wheel(deltaY) ==
    /\ budget.inputs > 0
    /\ budget' = [budget EXCEPT !.inputs = @ - 1]
    /\ movedTo' = Null
    /\ IF selectedLayerId \in LayerIds
       THEN EmitUpdate(selectedLayerId,
                [scale |-> WheelScale(LayerOf(selectedLayerId).scale, deltaY)])
       ELSE emitted' = <<>> /\ UNCHANGED layers
    /\ UNCHANGED <<selectedLayerId, dragState, isDraggingRef, pendingFg, nextId,
                   pointer>>
    /\ UNCHANGED exportVars

----------------------------------------------------------------------------
(* Rendering: the export's canvas transform and the preview's CSS transform *)

\* a 2D affine transform <<a, b, c, d, e, f>>: (x, y) -> (a x + c y + e, b x + d y + f)
Identity == <<Q(1), Q(0), Q(0), Q(1), Q(0), Q(0)>>

\* the transform m followed on its right by n: a point goes through n, then m
Compose(m, n) ==
    <<Add(Mul(m[1], n[1]), Mul(m[3], n[2])),
      Add(Mul(m[2], n[1]), Mul(m[4], n[2])),
      Add(Mul(m[1], n[3]), Mul(m[3], n[4])),
      Add(Mul(m[2], n[3]), Mul(m[4], n[4])),
      Add(Add(Mul(m[1], n[5]), Mul(m[3], n[6])), m[5]),
      Add(Add(Mul(m[2], n[5]), Mul(m[4], n[6])), m[6])>>

Apply(m, pt) ==
    <<Add(Add(Mul(m[1], pt[1]), Mul(m[3], pt[2])), m[5]),
      Add(Add(Mul(m[2], pt[1]), Mul(m[4], pt[2])), m[6])>>

\* ctx.translate(tx, ty) / CSS translate
Translate(tx, ty) == <<Q(1), Q(0), Q(0), Q(1), tx, ty>>

\* ctx.rotate(rad) / CSS rotate: clockwise on a y-down canvas
Rotate(rad) == <<CosPi(rad), SinPi(rad), Neg(SinPi(rad)), CosPi(rad), Q(0), Q(0)>>

\* ctx.scale(sx, sy) / CSS scale
Scale(sx, sy) == <<sx, Q(0), Q(0), sy, Q(0), Q(0)>>

\* the corners of the rectangle (x, y, w, h), in the order nw, ne, sw, se
RectCorners(x, y, w, h) ==
    <<<<x, y>>, <<Add(x, w), y>>, <<x, Add(y, h)>>, <<Add(x, w), Add(y, h)>>>>

\* an export that translates to the layer's top-left corner, not to its centre
ExportTransformTopLeft(layer) ==
    LET t1 == Compose(Identity, Translate(layer.x, layer.y))
        t2 == Compose(t1, Rotate(Div(layer.rotation, Q(180))))
    IN  Compose(t2, Scale(layer.scale, layer.scale))

\* handleDownload: the context transform when the layer is drawn, after
\* ctx.translate(cx, cy), ctx.rotate(rotation * Math.PI / 180), ctx.scale(scale, scale)
ExportTransform(layer) ==
    LET cx == Add(layer.x, Half(layer.width))
        cy == Add(layer.y, Half(layer.height))
        t1 == Compose(Identity, Translate(cx, cy))
        t2 == Compose(t1, Rotate(Div(layer.rotation, Q(180))))
    IN  Compose(t2, Scale(layer.scale, layer.scale))

\* handleDownload: where ctx.drawImage(img, -width / 2, -height / 2, width, height)
\* puts the four corners of the image
ExportCorners(layer) ==
    LET r == RectCorners(Neg(Half(layer.width)), Neg(Half(layer.height)),
                         Q(layer.width), Q(layer.height))
    IN  [k \in 1..4 |-> Apply(ExportTransform(layer), r[k])]

\* Editor: the layer's div, left / top / width / height, with
\* transform: rotate(rotation deg) scale(scale) and transform-origin: center center
\* (the origin is moved to the box centre, the transform list applied, the origin
\* moved back)
PreviewCorners(layer) ==
    LET ox == Add(layer.x, Half(layer.width))
        oy == Add(layer.y, Half(layer.height))
        css == Compose(Rotate(toRad(layer.rotation)), Scale(layer.scale, layer.scale))
        r == RectCorners(layer.x, layer.y, Q(layer.width), Q(layer.height))
    IN  [k \in 1..4 |->
            Apply(Translate(ox, oy),
                  Apply(css, Apply(Translate(Neg(ox), Neg(oy)), r[k])))]

\* Editor: the z-index class of the layer's div, z-50 when selected, else z-10
ZIndex(layer) == IF selectedLayerId = layer.id THEN 50 ELSE 10

\* Editor: layers[j] is painted above layers[i] in the preview (higher z-index,
\* or the same z-index and later in the document)
PreviewAbove(j, i) ==
    \/ ZIndex(layers[j]) > ZIndex(layers[i])
    \/ ZIndex(layers[j]) = ZIndex(layers[i]) /\ j > i

\* handleDownload: layers[j] is drawn after, so above, layers[i] (for (const layer
\* of state.layers), in list order)
ExportAbove(j, i) == j > i

----------------------------------------------------------------------------
(* The background and the export *)

\* naturalWidth x naturalHeight of the background files the user may upload;
\* image k is BackgroundImages[k]
BackgroundImages == <<<<640, 480>>, <<1024, 768>>>>

IntrinsicSize(k) == BackgroundImages[k]

\* handleUploadBackground, and the Editor's effect on [backgroundSrc] that starts
\* decoding the new image
UploadBackground(k) ==
    /\ backgroundSrc' = k
    /\ bgDecoding' = bgDecoding \cup {k}
    /\ emitted' = <<>>
    /\ movedTo' = Null
    /\ UNCHANGED <<layers, selectedLayerId, dragState, isDraggingRef, pendingFg,
                   nextId, pointer, budget, bgSize, exportJob>>

\* the Editor's effect: img.onload of a background image it started decoding
BackgroundDecoded(k) ==
    /\ k \in bgDecoding
    /\ bgSize' = IntrinsicSize(k)
    /\ bgDecoding' = bgDecoding \ {k}
    /\ emitted' = <<>>
    /\ movedTo' = Null
    /\ UNCHANGED <<layers, selectedLayerId, dragState, isDraggingRef, pendingFg,
                   nextId, pointer, budget, backgroundSrc, exportJob>>

\* canvasRef.current.offsetWidth x offsetHeight: the canvas element's width and
\* height style
CanvasSize == IF backgroundSrc # NoBackground THEN bgSize ELSE DefaultCanvas

\* the background's entry in the sequence of draws (layers are entered by id)
BackgroundDraw == 0

\* the export a click on the download button starts when the background is set
\* and the 2d context exists: the canvas size and the closure's state
StartedJob ==
    [phase |-> "background", ctx |-> TRUE, src |-> backgroundSrc, size |-> CanvasSize,
     layers |-> layers, index |-> 0, drawn |-> <<>>, failed |-> {},
     downloaded |-> FALSE, frame |-> Identity, saved |-> <<>>, drawnWith |-> <<>>]

\* a download that starts the export whatever the background and the context
DownloadUnguarded(ctxOk) ==
    /\ budget.exports > 0
    /\ budget' = [budget EXCEPT !.exports = @ - 1]
    /\ exportJob.phase \in {"idle", "refused", "done", "failed"}
    /\ exportJob' = [StartedJob EXCEPT !.ctx = ctxOk]
    /\ emitted' = <<>>
    /\ movedTo' = Null
    /\ UNCHANGED <<layers, selectedLayerId, dragState, isDraggingRef, pendingFg,
                   nextId, pointer, backgroundSrc, bgSize, bgDecoding>>

\* handleDownload, up to loadImage(state.backgroundSrc); ctxOk: getContext('2d')
\* returned a context
Download(ctxOk) ==
    /\ budget.exports > 0
    /\ budget' = [budget EXCEPT !.exports = @ - 1]
    /\ exportJob.phase \in {"idle", "refused", "done", "failed"}
    /\ exportJob' = IF backgroundSrc = NoBackground \/ ~ctxOk
                    THEN [IdleJob EXCEPT !.phase = "refused", !.ctx = ctxOk]
                    ELSE StartedJob
    /\ emitted' = <<>>
    /\ movedTo' = Null
    /\ UNCHANGED <<layers, selectedLayerId, dragState, isDraggingRef, pendingFg,
                   nextId, pointer, backgroundSrc, bgSize, bgDecoding>>

\* a loop that does not skip invisible layers
NextVisibleAll(ls, i) == i + 1

\* the for loop of handleDownload: the first index after i whose layer is visible
\* (if (!layer.visible) continue), Len(ls) + 1 when the loop ends
NextVisible(ls, i) ==
    LET rest == {j \in (i + 1)..Len(ls) : ls[j].visible}
    IN  IF rest = {} THEN Len(ls) + 1
        ELSE CHOOSE j \in rest : \A k \in rest : j <= k

\* handleDownload's loop resumed after index i: it runs to its next await
\* loadImage(layer.src), or to its end and triggers the download
Advance(job, i) ==
    LET j == NextVisible(job.layers, i)
    IN  IF j > Len(job.layers)
        THEN [job EXCEPT !.phase = "done", !.index = j, !.downloaded = TRUE]
        ELSE [job EXCEPT !.phase = "layer", !.index = j]

\* an export that a failed layer aborts
LayerFailedAborts(job) ==
    [job EXCEPT !.phase = "failed", !.failed = @ \cup {job.layers[job.index].id}]

\* the export's state when loadImage of the layer at its index rejects: the catch
\* logs the error and the loop goes on
LayerFailed(job) ==
    Advance([job EXCEPT !.failed = @ \cup {job.layers[job.index].id}], job.index)

\* ctx.save(): the current transform is pushed on the context's stack
CtxSave(job) ==
    [job EXCEPT !.saved = Append(@, job.frame)]

\* ctx.translate / ctx.rotate / ctx.scale: the current transform is multiplied on
\* its right by m
CtxTransform(job, m) ==
    [job EXCEPT !.frame = Compose(@, m)]

\* ctx.drawImage of the background or of the layer id, under the current transform
CtxDrawImage(job, id) ==
    [job EXCEPT !.drawn = Append(@, id), !.drawnWith = Append(@, job.frame)]

\* a restore that leaves the current transform as it is
CtxRestoreNothing(job) ==
    job

\* ctx.restore(): the transform saved last is popped and becomes the current one;
\* nothing happens on an empty stack
CtxRestore(job) ==
    IF job.saved = <<>> THEN job
    ELSE [job EXCEPT !.frame = job.saved[Len(job.saved)],
                     !.saved = SubSeq(@, 1, Len(@) - 1)]

\* the export's state when loadImage of the layer at its index resolves: the layer
\* is drawn between ctx.save() and ctx.restore(), and the loop goes on
LayerDrawn(job) ==
    LET layer == job.layers[job.index]
        cx == Add(layer.x, Half(layer.width))
        cy == Add(layer.y, Half(layer.height))
        j1 == CtxTransform(CtxSave(job), Translate(cx, cy))
        j2 == CtxTransform(j1, Rotate(Div(layer.rotation, Q(180))))
        j3 == CtxTransform(j2, Scale(layer.scale, layer.scale))
    IN  Advance(CtxRestore(CtxDrawImage(j3, layer.id)), job.index)

\* handleDownload: loadImage(state.backgroundSrc) settles; resolved, the
\* background is drawn and the loop over state.layers starts; rejected, nothing
\* handles the rejection
ExportBackgroundLoaded(ok) ==
    /\ exportJob.phase = "background"
    /\ exportJob' = IF ok
                    THEN Advance(CtxDrawImage(exportJob, BackgroundDraw), 0)
                    ELSE [exportJob EXCEPT !.phase = "failed"]
    /\ emitted' = <<>>
    /\ movedTo' = Null
    /\ UNCHANGED <<layers, selectedLayerId, dragState, isDraggingRef, pendingFg,
                   nextId, pointer, budget, backgroundSrc, bgSize, bgDecoding>>

\* handleDownload: the awaited loadImage(layer.src) settles
ExportLayerLoaded(ok) ==
    /\ exportJob.phase = "layer"
    /\ exportJob' = IF ok THEN LayerDrawn(exportJob) ELSE LayerFailed(exportJob)
    /\ emitted' = <<>>
    /\ movedTo' = Null
    /\ UNCHANGED <<layers, selectedLayerId, dragState, isDraggingRef, pendingFg,
                   nextId, pointer, budget, backgroundSrc, bgSize, bgDecoding>>

\* uploads, layer list operations and exports, interleaved
NextExport ==
    \/ \E size \in ImageSizes : UploadForeground(size)
    \/ \E k \in DOMAIN pendingFg : ForegroundLoaded(k)
    \/ \E id \in LayerIds : DeleteLayer(id)
    \/ \E id \in LayerIds : ToggleVisibility(id)
    \/ \E k \in DOMAIN BackgroundImages : UploadBackground(k)
    \/ \E k \in bgDecoding : BackgroundDecoded(k)
    \/ \E ctxOk \in BOOLEAN : Download(ctxOk)
    \/ \E ok \in BOOLEAN : ExportBackgroundLoaded(ok)
    \/ \E ok \in BOOLEAN : ExportLayerLoaded(ok)

SpecExport == Init /\ [][NextExport]_vars

----------------------------------------------------------------------------
(* The editor *)

Next ==
    \/ \E size \in ImageSizes : UploadForeground(size)
    \/ \E k \in DOMAIN pendingFg : ForegroundLoaded(k)
    \/ \E id \in LayerIds : SelectLayer(id)
    \/ \E id \in LayerIds : DeleteLayer(id)
    \/ \E id \in LayerIds : ToggleVisibility(id)
    \/ \E v \in SliderScales : SliderScale(v)
    \/ \E v \in SliderRotations : SliderRotation(v)
    \/ \E v \in NumericPositions : NumericX(v)
    \/ \E v \in NumericPositions : NumericY(v)
    \/ \E id \in LayerIds, mode \in DragModes, handle \in ResizeHandles \cup {"none"},
          pt \in EditorPoints : PointerDown(id, mode, handle, pt)
    \/ \E pt \in EditorPoints : PointerMove(pt)
    \/ PointerUp
    \/ PointerCancel
    \/ CanvasClick
    \/ BackgroundClick
    \/ \E d \in WheelDeltas : Wheel(d)

Spec == Init /\ [][Next]_vars

----------------------------------------------------------------------------
(* One gesture on one layer, from any transform the controls can set *)

\* pointer positions of the gesture: corners and centre of a 40 x 30 layer at
\* (50, 50), a point at distance 1 from its se corner when it is rotated by 90
\* degrees, points on the principal directions around its centre at two distances
PointerPoints ==
    {<<50, 50>>, <<56, 85>>, <<90, 80>>, <<130, 110>>, <<70, 65>>,
     <<90, 65>>, <<110, 65>>, <<50, 85>>, <<50, 45>>}

\* the layer's rotation (rotation slider, integer degrees) when the gesture starts
GestureRotations == {0, 30, 90, -45}

\* the layer's scale (scale slider, wheel) when the gesture starts
GestureScales == {Q(1), Frac(1, 2)}

\* the layer's position (Pos X / Pos Y fields) when the gesture starts
GesturePositions == {<<50, 50>>}

InitGesture ==
    /\ \E pos \in GesturePositions, sc \in GestureScales, rot \in GestureRotations,
          size \in ImageSizes :
          layers = <<[NewLayer(1, size) EXCEPT !.x = Q(pos[1]), !.y = Q(pos[2]),
                                               !.scale = sc, !.rotation = Q(rot)]>>
    /\ selectedLayerId \in {NoLayer, 1}
    /\ dragState = Null
    /\ isDraggingRef = FALSE
    /\ pendingFg = <<>>
    /\ nextId = 2
    /\ emitted = <<>>
    /\ movedTo = Null
    /\ pointer = IdlePointer
    /\ budget = [gestures |-> 1, inputs |-> 0, exports |-> 0]
    /\ NoExport

NextGesture ==
    \/ \E id \in LayerIds, mode \in DragModes, handle \in ResizeHandles \cup {"none"},
          pt \in PointerPoints : PointerDown(id, mode, handle, pt)
    \/ \E pt \in PointerPoints : PointerMove(pt)
    \/ PointerUp
    \/ PointerCancel
    \/ CanvasClick

SpecGesture == InitGesture /\ [][NextGesture]_vars

----------------------------------------------------------------------------
(* Properties *)

\* the drag session handled a pointermove and emitted an update, in mode m
Emitted(m) ==
    /\ movedTo # Null
    /\ emitted # <<>>
    /\ dragState # Null
    /\ dragState[1].mode = m

\* the offset from the centre of the corner opposite the handle, unscaled
OppositeOffset(handle, w, h) ==
    CASE handle = "nw" -> <<Half(w), Half(h)>>
      [] handle = "ne" -> <<Neg(Half(w)), Half(h)>>
      [] handle = "sw" -> <<Half(w), Neg(Half(h))>>
      [] handle = "se" -> <<Neg(Half(w)), Neg(Half(h))>>

\* centre + rotate(rotation)(scale * corner offset from centre), for the corner
\* opposite the handle
OppositeCorner(x, y, scale, rotation, w, h, handle) ==
    LET off == OppositeOffset(handle, w, h)
        sx == Mul(scale, off[1])
        sy == Mul(scale, off[2])
        c == CosPi(toRad(rotation))
        sn == SinPi(toRad(rotation))
    IN  <<Add(Add(x, Half(w)), Sub(Mul(sx, c), Mul(sy, sn))),
          Add(Add(y, Half(h)), Add(Mul(sx, sn), Mul(sy, c)))>>

\* C1: every update a resize gesture emits keeps the corner opposite the dragged
\* handle at the pivot recorded at pointer-down: recomputed from the update's x, y,
\* scale with the size and rotation the gesture started from, and recomputed from
\* the updated layer itself, also when the 0.05 floor engages
C1_PivotFixed ==
    Emitted("resize") =>
        LET ds == dragState[1]
            u == emitted[1].updates
            s0 == ds.startLayerState
            l == LayerOf(emitted[1].id)
        IN  /\ OppositeCorner(u.x, u.y, u.scale, s0.rotation, s0.width, s0.height,
                              ds.handle) = ds.pivotWorld
            /\ OppositeCorner(l.x, l.y, l.scale, l.rotation, l.width, l.height,
                              ds.handle) = ds.pivotWorld

\* C1 witness: a resize update of a rotated layer on which the floor engaged
C1_Witness ==
    /\ Emitted("resize")
    /\ emitted[1].updates.scale = MinScale
    /\ dragState[1].startLayerState.rotation = Q(90)
    /\ dragState[1].handle = "nw"

\* a - b as a pair of rationals
Minus(a, b) == <<Sub(a[1], b[1]), Sub(a[2], b[2])>>

QPoint(pt) == <<Q(pt[1]), Q(pt[2])>>

\* the direction of point pt seen from c, in degrees within (-180, 180]
Direction(c, pt) == Mul(Atan2(Sub(pt[2], c[2]), Sub(pt[1], c[1])), Q(180))

\* the angle in (-180, 180] congruent to deg, for -360 < deg <= 360
Principal(deg) ==
    IF Lt(Q(180), deg) THEN Sub(deg, Q(360))
    ELSE IF Le(deg, Q(-180)) THEN Add(deg, Q(360))
    ELSE deg

\* in a rotate gesture: theta, the turn in (-180, 180] that takes the direction of
\* the pointer-down to the direction of the current pointer, both seen from the
\* layer's centre
Theta ==
    LET c == CenterOf(LayerOf(pointer.layer))
    IN  Principal(Sub(Direction(c, QPoint(movedTo)), Direction(c, QPoint(pointer.downAt))))

\* a gesture on a layer is in progress and its last pointermove emitted an update
GestureEmitted(m) ==
    /\ Emitted(m)
    /\ pointer.phase = "down"
    /\ pointer.layer \in LayerIds

\* C7: a rotate gesture in which the pointer turned by theta emits rotation =
\* snapshot rotation + theta, and nothing else
C7_RotationIsThetaExactly ==
    GestureEmitted("rotate") =>
        /\ DOMAIN emitted[1].updates = {"rotation"}
        /\ emitted[1].updates.rotation =
               Add(dragState[1].startLayerState.rotation, Theta)

\* the direction of the pointer-down plus theta is still within (-180, 180]: the
\* pointer did not cross the direction of the negative x axis
NoWrap ==
    LET a == Add(Direction(CenterOf(LayerOf(pointer.layer)), QPoint(pointer.downAt)),
                 Theta)
    IN  Lt(Q(-180), a) /\ Le(a, Q(180))

\* what a rotate gesture does emit: only rotation, equal to the snapshot rotation
\* plus theta up to one whole turn, and exactly plus theta when the pointer did not
\* cross the direction of the negative x axis; x, y and scale keep their snapshot
\* values
RotationIsThetaModuloTurn ==
    GestureEmitted("rotate") =>
        LET u == emitted[1].updates
            s0 == dragState[1].startLayerState
            l == LayerOf(emitted[1].id)
            off == Sub(Sub(u.rotation, s0.rotation), Theta)
        IN  /\ DOMAIN u = {"rotation"}
            /\ off \in {Q(-360), Q(0), Q(360)}
            /\ NoWrap => off = Q(0)
            /\ l.rotation = u.rotation
            /\ l.x = s0.x /\ l.y = s0.y /\ l.scale = s0.scale

\* the pointer turned by 90 degrees across the negative x axis, on a layer already
\* rotated by 30 degrees: the emitted rotation is 30 - 270
RotationWrapped ==
    /\ GestureEmitted("rotate")
    /\ Theta = Q(90)
    /\ ~NoWrap
    /\ dragState[1].startLayerState.rotation = Q(30)
    /\ emitted[1].updates.rotation = Q(-240)

\* C8: a move gesture emits only x and y, the snapshot position plus the pointer's
\* displacement since pointer-down on each axis, so the snapshot position itself
\* when the pointer is back at its start; the layer's rotation and scale keep
\* their snapshot values
C8_MoveFollowsPointer ==
    GestureEmitted("move") =>
        LET u == emitted[1].updates
            s0 == dragState[1].startLayerState
            l == LayerOf(emitted[1].id)
            d == Minus(QPoint(movedTo), QPoint(pointer.downAt))
        IN  /\ DOMAIN u = {"x", "y"}
            /\ u.x = Add(s0.x, d[1])
            /\ u.y = Add(s0.y, d[2])
            /\ movedTo = pointer.downAt => (u.x = s0.x /\ u.y = s0.y)
            /\ l.x = u.x /\ l.y = u.y
            /\ l.rotation = s0.rotation /\ l.scale = s0.scale

\* C8 witness: the pointer is back at its start on a rotated, scaled layer, after
\* pointermoves
C8_Witness ==
    /\ GestureEmitted("move")
    /\ pointer.moved
    /\ movedTo = pointer.downAt
    /\ dragState[1].startLayerState.rotation = Q(30)
    /\ dragState[1].startLayerState.scale = Frac(1, 2)

\* the pivot of resize session ds: the corner opposite the handle of the layer as
\* it was at pointer-down
GesturePivot(ds) ==
    LET s0 == ds.startLayerState
    IN  OppositeCorner(s0.x, s0.y, s0.scale, s0.rotation, s0.width, s0.height,
                       ds.handle)

\* the distance from the pivot of resize session ds to the point pt
PivotDist(ds, pt) ==
    LET d == Minus(QPoint(pt), GesturePivot(ds))
    IN  Hypot(d[1], d[2])

\* the update (id, values) is a resize update: it carries a scale
IsResize(e) == e # <<>> /\ "scale" \in DOMAIN e[1].updates

\* a pointermove at mt of resize gesture ds, begun at ptr.downAt, emitted e
ResizeEmitted(e, ds, ptr, mt) ==
    /\ IsResize(e)
    /\ ds # Null
    /\ mt # Null
    /\ ptr.phase = "down"

\* the scale the resize gesture ds, begun at downAt, owes at pointer mt
OwedScale(ds, downAt, mt) ==
    RMax(Frac(5, 100),
         Mul(ds[1].startLayerState.scale,
             Div(PivotDist(ds[1], mt), PivotDist(ds[1], downAt))))

\* C9: a resize gesture emits scale = max(0.05, snapshot scale * d / start
\* distance), and of two successive updates of one gesture the one farther from the
\* pivot has the strictly greater scale unless both are at the 0.05 floor
C9_ScaleMonotone ==
    [][/\ ResizeEmitted(emitted', dragState', pointer', movedTo') =>
            emitted'[1].updates.scale = OwedScale(dragState', pointer'.downAt, movedTo')
       /\ (/\ ResizeEmitted(emitted, dragState, pointer, movedTo)
           /\ ResizeEmitted(emitted', dragState', pointer', movedTo')
           /\ dragState' = dragState
           /\ Lt(PivotDist(dragState[1], movedTo), PivotDist(dragState[1], movedTo')))
          => \/ Lt(emitted[1].updates.scale, emitted'[1].updates.scale)
             \/ /\ emitted[1].updates.scale = Frac(5, 100)
                /\ emitted'[1].updates.scale = Frac(5, 100)]_vars

\* C9 witness: the pointer is twice as far from the pivot as at pointer-down and
\* the emitted scale is twice the snapshot scale
C9_Witness ==
    /\ ResizeEmitted(emitted, dragState, pointer, movedTo)
    /\ PivotDist(dragState[1], movedTo) = Mul(Q(2), PivotDist(dragState[1], pointer.downAt))
    /\ emitted[1].updates.scale = Mul(Q(2), dragState[1].startLayerState.scale)

\* the pointermove at mt of resize session ds is closer than 1 to the pivot
BelowThreshold(ds, mt) ==
    /\ mt # Null
    /\ ds # Null
    /\ ds[1].mode = "resize"
    /\ LET d == Minus(QPoint(mt), GesturePivot(ds[1]))
       IN  Lt(Add(Mul(d[1], d[1]), Mul(d[2], d[2])), Q(1))

\* the resize update e of session ds divided by a start distance that is not zero
StartDistNonZero(e, ds) ==
    IsResize(e) => (ds[1].startDist # Null /\ Sign(ds[1].startDist) # 0)

\* C10: a resize pointermove closer than 1 to the pivot emits nothing and leaves
\* the layers as they were, and a resize update is emitted only for a start
\* distance that is not zero
C10_BelowThresholdIgnored ==
    [][/\ BelowThreshold(dragState', movedTo') => (emitted' = <<>> /\ layers' = layers)
       /\ StartDistNonZero(emitted', dragState')]_vars

\* C10 witness: a resize pointermove onto the pivot itself, in a gesture that began
\* away from the pivot
C10_Witness ==
    /\ BelowThreshold(dragState, movedTo)
    /\ QPoint(movedTo) = GesturePivot(dragState[1])
    /\ pointer.phase = "down"
    /\ pointer.moved
    /\ Sign(dragState[1].startDist) # 0
    /\ emitted = <<>>

\* C2: the export puts the four corners of every visible layer's image where the
\* preview puts the corners of the layer's box
C2_ExportMatchesPreview ==
    \A i \in DOMAIN layers :
        layers[i].visible => ExportCorners(layers[i]) = PreviewCorners(layers[i])

\* C2 witness: a visible layer that is rotated, scaled by a resize and moved off
\* its default position
C2_Witness ==
    \E i \in DOMAIN layers :
        /\ layers[i].visible
        /\ layers[i].rotation = Q(-45)
        /\ layers[i].scale \notin {Q(1), Frac(1, 2)}
        /\ layers[i].x # Q(50)

------------------------------------------------------------------------------
(* The scale of two layers under wheel, slider and resize *)

\* wheel, slider and numeric inputs in one behaviour of the scale specification
ScaleInputs == 2

\* e.deltaY of the wheel events: a single notch and a sweep that reaches the clamp
ScaleWheelDeltas == {-5000, 100}

\* values of the scale slider: its min and its max
ScaleSliderValues == {Frac(1, 10), Q(3)}

\* pointer positions of the resize gesture: a point beyond the se corner and a
\* point close to the nw corner of a 40 x 30 layer at (50, 50)
ScalePoints == {<<130, 110>>, <<52, 50>>}

InitScale ==
    /\ \E size \in ImageSizes : layers = <<NewLayer(1, size), NewLayer(2, size)>>
    /\ selectedLayerId \in {NoLayer, 1, 2}
    /\ dragState = Null
    /\ isDraggingRef = FALSE
    /\ pendingFg = <<>>
    /\ nextId = 3
    /\ emitted = <<>>
    /\ movedTo = Null
    /\ pointer = IdlePointer
    /\ budget = [gestures |-> 1, inputs |-> ScaleInputs, exports |-> 0]
    /\ NoExport

NextScale ==
    \/ \E id \in LayerIds : SelectLayer(id)
    \/ \E id \in LayerIds : DeleteLayer(id)
    \/ \E id \in LayerIds : ToggleVisibility(id)
    \/ \E v \in ScaleSliderValues : SliderScale(v)
    \/ \E d \in ScaleWheelDeltas : Wheel(d)
    \/ \E id \in LayerIds, pt \in ScalePoints : PointerDown(id, "resize", "se", pt)
    \/ \E pt \in ScalePoints : PointerMove(pt)
    \/ PointerUp
    \/ CanvasClick

SpecScale == InitScale /\ [][NextScale]_vars

\* the scale of the layer id in the layer collection ls
ScaleIn(ls, id) == ls[CHOOSE i \in DOMAIN ls : ls[i].id = id].scale

\* a lies within [lo, hi]
Within(a, lo, hi) == Le(lo, a) /\ Le(a, hi)

\* the update e sets the scale and nothing else
IsScaleOnly(e) == e # <<>> /\ DOMAIN e[1].updates = {"scale"}

\* the update e is a resize update: x, y and scale
IsResizeUpdate(e) == e # <<>> /\ DOMAIN e[1].updates = {"x", "y", "scale"}

\* C11: every step leaves every layer with a positive scale: at least 0.05 on the
\* layer a resize update went to, within [0.1, 5] on the layer a wheel event
\* updated, within [0.1, 3] on the layer a slider input updated
C11_ScalePositive ==
    [][/\ \A i \in DOMAIN layers' : Sign(layers'[i].scale) = 1
       /\ IsResizeUpdate(emitted') =>
            Le(Frac(5, 100), ScaleIn(layers', emitted'[1].id))
       /\ ((\E d \in ScaleWheelDeltas : Wheel(d)) /\ emitted' # <<>>) =>
            Within(ScaleIn(layers', emitted'[1].id), Frac(1, 10), Q(5))
       /\ (\E v \in ScaleSliderValues : SliderScale(v)) =>
            Within(ScaleIn(layers', emitted'[1].id), Frac(1, 10), Q(3))]_vars

\* C11 witness: after a resize gesture that moved a layer, the first wheel or
\* slider input took a layer's scale to 0.1, the lower end of both ranges
C11_Witness ==
    /\ budget.gestures = 0
    /\ budget.inputs = ScaleInputs - 1
    /\ IsScaleOnly(emitted)
    /\ emitted[1].updates.scale = Frac(1, 10)
    /\ ScaleIn(layers, emitted[1].id) = Frac(1, 10)
    /\ \E i \in DOMAIN layers : layers[i].x # Q(50)

\* the layers after a wheel event of deltaY, as stated: the selected layer's scale
\* becomes min(5, max(0.1, scale - deltaY * 0.001)), nothing else changes
WheelEffect(ls, sel, deltaY) ==
    [i \in DOMAIN ls |->
        IF ls[i].id = sel
        THEN [ls[i] EXCEPT !.scale =
                 RMin(Q(5), RMax(Frac(1, 10),
                                 Sub(ls[i].scale, Mul(Q(deltaY), Frac(1, 1000)))))]
        ELSE ls[i]]

\* C12: a wheel event changes no layer when no layer is selected, and otherwise
\* sets the selected layer's scale to min(5, max(0.1, scale - deltaY * 0.001)) and
\* nothing else; it leaves the selection and the drag session as they are
C12_WheelSetsScale ==
    [][\A d \in ScaleWheelDeltas :
          Wheel(d) =>
            /\ layers' = WheelEffect(layers, selectedLayerId, d)
            /\ selectedLayerId = NoLayer => layers' = layers
            /\ dragState' = dragState
            /\ selectedLayerId' = selectedLayerId]_vars

\* C12 witness: with no drag session, a wheel event took the scale of the second
\* of two layers to the upper clamp
C12_Witness ==
    /\ IsScaleOnly(emitted)
    /\ emitted[1].id = 2
    /\ emitted[1].updates.scale = Q(5)
    /\ dragState = Null
    /\ Len(layers) = 2
    /\ layers[1].scale = Q(1)
    /\ layers[2].scale = Q(5)

----------------------------------------------------------------------------
(* Stacking, selection and the end of a gesture *)

\* twice the signed area of the triangle a, b, p
Cross(a, b, p) ==
    Sub(Mul(Sub(b[1], a[1]), Sub(p[2], a[2])), Mul(Sub(b[2], a[2]), Sub(p[1], a[1])))

\* the preview's box of the layer covers the point p
Covers(layer, p) ==
    LET c == PreviewCorners(layer)
        sides == {Sign(Cross(c[1], c[2], p)), Sign(Cross(c[2], c[4], p)),
                  Sign(Cross(c[4], c[3], p)), Sign(Cross(c[3], c[1], p))}
    IN  ~({-1, 1} \subseteq sides)

\* two visible layers that share a point: the centre of one is covered by the other
Overlap(a, b) ==
    /\ a.visible /\ b.visible
    /\ \/ Covers(a, CenterOf(b))
       \/ Covers(b, CenterOf(a))

\* C3: any two overlapping visible layers are stacked by the export in the order
\* in which the preview shows them, whatever the selection
C3_StackingMatchesPreview ==
    \A i, j \in DOMAIN layers :
        (i < j /\ Overlap(layers[i], layers[j])) =>
            (PreviewAbove(j, i) <=> ExportAbove(j, i))

\* C4: the click the canvas handles after a pointer-down and pointer-up on a layer
\* with no pointermove in between leaves that layer selected
C4_ClickSelects ==
    [][(/\ pointer.phase = "click"
        /\ ~pointer.moved
        /\ pointer'.phase = "idle"
        /\ pointer.layer \in LayerIds)
       => selectedLayerId' = pointer.layer]_vars

\* C5: once the layer of the gesture in progress is deleted, a pointermove of that
\* gesture emits no update
C5_DeletedLayerNoUpdates ==
    (/\ pointer.phase = "down"
     /\ pointer.layer \notin LayerIds
     /\ movedTo # Null)
    => emitted = <<>>

\* C6: with no pointer pressed on a layer or handle the drag session is discarded
\* and a pointermove emits no update
C6_SessionDiscarded ==
    pointer.phase = "idle" =>
        /\ dragState = Null
        /\ movedTo # Null => emitted = <<>>

-----------------------------------------------------------------------------
(* The export *)

\* the ids of the visible layers of ls that are not in skip, in list order
VisibleIds(ls, skip) ==
    LET kept == SelectSeq(ls, LAMBDA l : l.visible /\ l.id \notin skip)
    IN  [k \in 1..Len(kept) |-> kept[k].id]

\* the draws an export of the layers ls owes when the images of skip fail
OwedDraws(ls, skip) == <<BackgroundDraw>> \o VisibleIds(ls, skip)

IsPrefix(a, b) == Len(a) <= Len(b) /\ \A k \in 1..Len(a) : a[k] = b[k]

\* the job drew only what it owes so far, in order, and all of it when done
DrawsInOrder(job) ==
    /\ IsPrefix(job.drawn, OwedDraws(job.layers, job.failed))
    /\ job.phase = "done" => job.drawn = OwedDraws(job.layers, job.failed)

\* C13: an export draws the background first, then exactly the layers that were
\* visible when it was requested, in list order, and never a layer that was
\* invisible; no step of the export changes the layer list
C13_ExportDrawOrder ==
    [][exportJob' # exportJob =>
          /\ layers' = layers
          /\ exportJob'.failed = {} => DrawsInOrder(exportJob')
          /\ \A k \in DOMAIN exportJob'.drawn, i \in DOMAIN exportJob'.layers :
                exportJob'.drawn[k] = exportJob'.layers[i].id =>
                    exportJob'.layers[i].visible]_vars

\* C13 witness: a finished export of an invisible layer followed by a visible one
\* drew the background and the second layer; the first is still in the list
C13_Witness ==
    /\ exportJob.phase = "done"
    /\ exportJob.failed = {}
    /\ exportJob.drawn = <<BackgroundDraw, 2>>
    /\ Len(exportJob.layers) = 2
    /\ ~exportJob.layers[1].visible
    /\ 1 \in LayerIds
    /\ ~LayerOf(1).visible

\* C14: a layer whose image fails is skipped and the export goes on: the loop
\* awaits the next visible layer or ends with the download, and the finished
\* export has drawn the background and every visible layer that did not fail, in
\* list order
C14_FailedLayerSkipped ==
    [][(exportJob.phase = "layer" /\ exportJob' # exportJob) =>
          /\ exportJob'.phase \in {"layer", "done"}
          /\ exportJob'.failed # exportJob.failed =>
                exportJob'.drawn = exportJob.drawn
          /\ DrawsInOrder(exportJob')
          /\ exportJob'.phase = "done" => exportJob'.downloaded]_vars

\* C14 witness: the first of two visible layers failed, the export drew the second
\* and triggered the download
C14_Witness ==
    /\ exportJob.phase = "done"
    /\ exportJob.downloaded
    /\ exportJob.failed = {1}
    /\ exportJob.drawn = <<BackgroundDraw, 2>>

\* C15: a download request with no background or with no 2d context draws
\* nothing, triggers no download and changes nothing of the editor's state, and an
\* export only ever runs with a background and a context
C15_ExportPreconditions ==
    [][/\ (/\ budget'.exports < budget.exports
           /\ (backgroundSrc = NoBackground \/ ~exportJob'.ctx))
          => /\ exportJob'.phase = "refused"
             /\ exportJob'.drawn = <<>>
             /\ ~exportJob'.downloaded
             /\ UNCHANGED <<layers, selectedLayerId, dragState, isDraggingRef,
                            backgroundSrc, bgSize, bgDecoding>>
       /\ exportJob'.phase \in {"background", "layer", "done", "failed"}
          => (exportJob'.src # NoBackground /\ exportJob'.ctx)]_vars

\* C15 witness: with layers but no background, a download request was refused
C15_Witness ==
    /\ exportJob.phase = "refused"
    /\ backgroundSrc = NoBackground
    /\ layers # <<>>
    /\ exportJob.drawn = <<>>
    /\ ~exportJob.downloaded

\* C16: while the export waits for an image to decode it has drawn no layer
C16_DecodeGate ==
    exportJob.phase = "layer" =>
        \A k \in DOMAIN exportJob.drawn : exportJob.drawn[k] = BackgroundDraw

\* C17: a layer the export draws is, when it is drawn, in the layer collection and
\* visible
C17_LivenessRecheck ==
    [][(/\ Len(exportJob'.drawn) > Len(exportJob.drawn)
        /\ exportJob'.drawn[Len(exportJob'.drawn)] # BackgroundDraw)
       => \E i \in DOMAIN layers :
             /\ layers[i].id = exportJob'.drawn[Len(exportJob'.drawn)]
             /\ layers[i].visible]_vars

\* C18: the image of a finished export has the intrinsic size of the background
\* that was set when the export was requested
C18_ExportSize ==
    exportJob.downloaded => exportJob.size = IntrinsicSize(exportJob.src)

-----------------------------------------------------------------------------
(* The frame of an update *)

\* the fields a gesture of mode m updates
ModeFields(m) ==
    IF m = "move" THEN {"x", "y"}
    ELSE IF m = "rotate" THEN {"rotation"}
    ELSE {"x", "y", "scale"}

\* from the layers before to the layers after, the update e changed nothing but
\* the fields it names, on the layer it names
OnlyUpdated(before, after, e) ==
    /\ Len(after) = Len(before)
    /\ \A i \in DOMAIN before :
          IF before[i].id = e.id
          THEN \A f \in DOMAIN before[i] \ DOMAIN e.updates :
                  after[i][f] = before[i][f]
          ELSE after[i] = before[i]

\* C19: an update changes only the fields it names on the layer it names, and
\* these are the fields of the mode when a gesture emits it; it leaves the other
\* layers and the selection unchanged; no step changes the width or height of a
\* layer
C19_PartialMerge ==
    [][/\ emitted' # <<>> =>
            /\ OnlyUpdated(layers, layers', emitted'[1])
            /\ selectedLayerId' = selectedLayerId
            /\ DOMAIN emitted'[1].updates \subseteq {"x", "y", "scale", "rotation"}
            /\ movedTo' # Null =>
                  DOMAIN emitted'[1].updates = ModeFields(dragState[1].mode)
       /\ \A i \in DOMAIN layers', j \in DOMAIN layers :
             layers'[i].id = layers[j].id =>
                /\ layers'[i].width = layers[j].width
                /\ layers'[i].height = layers[j].height]_vars

\* C19 witness: a resize update doubled the scale of the first of two layers; the
\* second layer is as it was uploaded
C19_Witness ==
    /\ IsResizeUpdate(emitted)
    /\ emitted[1].id = 1
    /\ Len(layers) = 2
    /\ layers[1].scale = Q(2)
    /\ layers[1].rotation = Q(0)
    /\ layers[1].width = 40 /\ layers[1].height = 30
    /\ \E size \in ImageSizes : layers[2] = NewLayer(2, size)
    /\ selectedLayerId = 1

-----------------------------------------------------------------------------
(* The scenario: a 200 x 100 layer rotated by 45 degrees, then resized from se *)

\* the scenario's image
ScenarioSize == <<200, 100>>

\* the scenario's gestures in order: a rotate from the knob, with the pointer at the
\* angles atan2(0, 50), atan2(50, 50) and atan2(50, 0) from the centre (150, 100);
\* then a resize from the se handle of the layer rotated by 45 degrees, with the
\* pointer on the handle and at twice that distance from the layer's nw corner
ScenarioGestures ==
    << [mode |-> "rotate", handle |-> "none",
        points |-> {<<200, 100>>, <<200, 150>>, <<150, 150>>}],
       [mode |-> "resize", handle |-> "se",
        points |-> {<<186, 205>>, <<256, 416>>}] >>

InitScenario ==
    /\ layers = <<NewLayer(1, ScenarioSize)>>
    /\ selectedLayerId = 1
    /\ dragState = Null
    /\ isDraggingRef = FALSE
    /\ pendingFg = <<>>
    /\ nextId = 2
    /\ emitted = <<>>
    /\ movedTo = Null
    /\ pointer = IdlePointer
    /\ budget = [gestures |-> Len(ScenarioGestures), inputs |-> 0, exports |-> 0]
    /\ NoExport

\* the gestures are made in order, each with its own pointer positions
NextScenario ==
    \/ \E id \in LayerIds, g \in DOMAIN ScenarioGestures :
          \E pt \in ScenarioGestures[g].points :
             /\ budget.gestures = Len(ScenarioGestures) + 1 - g
             /\ PointerDown(id, ScenarioGestures[g].mode, ScenarioGestures[g].handle, pt)
    \/ \E g \in DOMAIN ScenarioGestures :
          \E pt \in ScenarioGestures[g].points :
             /\ dragState # Null
             /\ dragState[1].mode = ScenarioGestures[g].mode
             /\ PointerMove(pt)
    \/ PointerUp
    \/ CanvasClick

SpecScenario == InitScenario /\ [][NextScenario]_vars

\* the scenario's rotate gesture has emitted its update
ScenarioRotated ==
    /\ GestureEmitted("rotate")
    /\ dragState[1].startLayerState.rotation = Q(0)
    /\ dragState[1].startLayerState.x = Q(50)
    /\ dragState[1].startLayerState.y = Q(50)
    /\ pointer.downAt = <<200, 100>>
    /\ movedTo = <<200, 150>>

\* the scenario's resize gesture, on the layer the rotate gesture left, has emitted
\* an update at twice the start distance from the pivot
ScenarioResized ==
    /\ ResizeEmitted(emitted, dragState, pointer, movedTo)
    /\ dragState[1].handle = "se"
    /\ dragState[1].startLayerState.rotation = Q(45)
    /\ dragState[1].startLayerState.scale = Q(1)
    /\ dragState[1].startLayerState.x = Q(50)
    /\ dragState[1].startLayerState.y = Q(50)
    /\ PivotDist(dragState[1], movedTo) = Mul(Q(2), PivotDist(dragState[1], pointer.downAt))

\* the rotate gesture raised the rotation by 45 degrees and left x and y
RotatedBy45 ==
    /\ emitted[1].updates.rotation = Q(45)
    /\ LayerOf(emitted[1].id).rotation = Q(45)
    /\ LayerOf(emitted[1].id).x = Q(50)
    /\ LayerOf(emitted[1].id).y = Q(50)

\* the nw corner of the layer l: rotated is the layer's rotation, or 0 for the
\* corner of the layer taken unrotated
NwCorner(l, rotated) ==
    OppositeCorner(l.x, l.y, l.scale, rotated, l.width, l.height, "se")

\* C20: the rotate gesture raises the rotation by 45 degrees and leaves x and y;
\* the resize gesture that follows sets the scale to 2 and its x, y keep (50, 50)
\* as the nw corner of the layer taken unrotated
C20_ScenarioKeepsOrigin ==
    /\ ScenarioRotated => RotatedBy45
    /\ ScenarioResized =>
          /\ emitted[1].updates.scale = Q(2)
          /\ NwCorner(LayerOf(emitted[1].id), Q(0)) = <<Q(50), Q(50)>>

\* C20 amended: the rotate gesture raises the rotation by 45 degrees and leaves x
\* and y; the resize gesture that follows sets the scale to 2 and keeps the nw
\* corner of the rotated layer where it was when the resize began, which is not
\* (50, 50)
C20_ScenarioKeepsRotatedCorner ==
    /\ ScenarioRotated => RotatedBy45
    /\ ScenarioResized =>
          LET l == LayerOf(emitted[1].id)
          IN  /\ emitted[1].updates.scale = Q(2)
              /\ l.scale = Q(2)
              /\ l.rotation = Q(45)
              /\ NwCorner(l, l.rotation) =
                    NwCorner(dragState[1].startLayerState, Q(45))
              /\ NwCorner(l, l.rotation) # <<Q(50), Q(50)>>
              /\ NwCorner(l, Q(0)) # <<Q(50), Q(50)>>

\* C20 witness: the resize gesture of the scenario doubled the scale of the layer
\* rotated by 45 degrees
C20_Witness ==
    /\ ScenarioResized
    /\ pointer.downAt = <<186, 205>>
    /\ movedTo = <<256, 416>>
    /\ LayerOf(1).scale = Q(2)
    /\ LayerOf(1).rotation = Q(45)

-----------------------------------------------------------------------------
(* The gesture's layer *)

\* C21: every update a pointermove of the gesture in progress emits is addressed to
\* the layer on which the gesture's pointer-down occurred, also after the selection
\* has changed to another layer
C21_UpdatesTargetGestureLayer ==
    (/\ pointer.phase = "down"
     /\ movedTo # Null
     /\ emitted # <<>>)
    => emitted[1].id = pointer.layer

-----------------------------------------------------------------------------
(* The export's frame *)

\* the layer of the export job with the id
JobLayer(job, id) ==
    job.layers[CHOOSE i \in DOMAIN job.layers : job.layers[i].id = id]

\* the export has begun to draw
Drawing(job) == job.phase \in {"layer", "done"}

-----------------------------------------------------------------------------
(* The layer list *)

\* the ids of the layers of ls that are in ids, in list order
IdsKept(ls, ids) ==
    LET kept == SelectSeq(ls, LAMBDA l : l.id \in ids)
    IN  [i \in 1..Len(kept) |-> kept[i].id]

\* the ids of the layers of ls
IdSet(ls) == {ls[i].id : i \in DOMAIN ls}

\* after is before with the layer id's visible flag inverted and nothing else changed
OnlyVisibilityToggled(before, after, id) ==
    /\ Len(after) = Len(before)
    /\ \A i \in DOMAIN before :
          after[i] = IF before[i].id = id
                     THEN [before[i] EXCEPT !.visible = ~before[i].visible]
                     ELSE before[i]

-----------------------------------------------------------------------------
(* The click after a gesture *)

\* C24: the click dispatched after a gesture in which the pointer moved leaves
\* the selection as it is, and a click on the empty canvas, with no gesture just
\* finished, sets the selection to none
C24_ClickAfterGesture ==
    [][/\ (/\ pointer.phase = "click"
           /\ pointer.moved
           /\ pointer'.phase = "idle")
          => selectedLayerId' = selectedLayerId
       /\ BackgroundClick => selectedLayerId' = NoLayer
      ]_vars

-----------------------------------------------------------------------------
(* The selection *)

\* the selection sel is none or a layer of ls
SelectionValid(sel, ls) == sel = NoLayer \/ sel \in IdSet(ls)

\* C25: after every step selectedLayerId is null or the id of a layer in the
\* collection; a delete of the selected layer clears the selection and a delete of
\* another layer leaves it
C25_SelectionValid ==
    [][/\ SelectionValid(selectedLayerId, layers)
       /\ SelectionValid(selectedLayerId', layers')
       /\ \A id \in IdSet(layers) :
             DeleteLayer(id) =>
                selectedLayerId' = IF selectedLayerId = id THEN NoLayer
                                   ELSE selectedLayerId
      ]_vars

\* C25 witness: the selected layer of two was deleted in the middle of its gesture,
\* and nothing is selected
C25_Witness ==
    /\ pointer.phase = "down"
    /\ pointer.layer \notin LayerIds
    /\ Len(layers) = 1
    /\ dragState # Null
    /\ selectedLayerId = NoLayer

-----------------------------------------------------------------------------
(* The canvas size *)

\* C26: once every background decode the Editor started has completed, bgSize is
\* the natural size of the background set last, in whatever order the decodes
\* completed
C26_LastBackgroundWins ==
    (backgroundSrc # NoBackground /\ bgDecoding = {})
    => bgSize = IntrinsicSize(backgroundSrc)

=============================================================================
